---- MODULE Spec2Model ----
(***************************************************************************)
(* The shared DataTable component (client/src/components/ui/data-table.tsx, *)
(* kept here as src/unnamed/part_001) and the pages that configure it.      *)
(*                                                                          *)
(* A JavaScript string is a sequence of one-character strings, so that      *)
(* toLowerCase and String.prototype.includes are computed, not assumed.     *)
(* The value `undefined` of an absent field is the one-element sequence     *)
(* Undefined, which no string equals.  A row of a row model is the index of *)
(* its record in `data` (row.index).                                        *)
(*                                                                          *)
(* The row models are those of @tanstack/react-table v8 as the component    *)
(* configures them.  A handler and the re-render it causes, with the page   *)
(* index reset that the re-render queues, are one step: the queued reset    *)
(* runs before the next event is handled.                                   *)
(***************************************************************************)
EXTENDS Integers, Sequences, FiniteSets, TLC

\* Largest record array the data-fetching layer supplies.
MaxRows == 12

Undefined == <<"undefined">>

\* A number held by a field that globalFilterFn reads as a string (rowData is
\* `row.original as any`, so nothing keeps a field to the string type).
NumberValue == <<"number">>

\* ------------------------------------------------------------------------
\* JavaScript string primitives
\* ------------------------------------------------------------------------
LowerChar(c) ==
    CASE c = "A" -> "a" [] c = "B" -> "b" [] c = "C" -> "c" [] c = "D" -> "d"
      [] c = "E" -> "e" [] c = "H" -> "h" [] c = "L" -> "l" [] c = "R" -> "r"
      [] c = "S" -> "s" [] c = "N" -> "n"
      [] OTHER -> c

\* String.prototype.toLowerCase
toLowerCase(s) == [i \in 1..Len(s) |-> LowerChar(s[i])]

\* faulty variant: the whole field has to equal the search string
includesWhole(hay, needle) == hay = needle

\* String.prototype.includes
includes(hay, needle) ==
    \E i \in 0..(Len(hay) - Len(needle)) : SubSeq(hay, i + 1, i + Len(needle)) = needle

\* x?.toLowerCase() || ''   (part_001 lines 70-77, 94-97)
LowerOrEmpty(v) == IF v = Undefined THEN <<>> ELSE toLowerCase(v)

\* x?.toLowerCase() raises "toLowerCase is not a function" when x is neither
\* nullish nor a string: ?. guards the receiver only, not the method
LowerThrows(v) == v = NumberValue

\* `${v}` inside a template literal: undefined prints as the word
TemplateStr(v) ==
    IF v = Undefined THEN <<"u","n","d","e","f","i","n","e","d">> ELSE v

\* UTF-16 code unit order of the characters used, for string comparison
CharOrder == <<" ", ".", "@", "A", "B", "C", "D", "E", "H", "L", "N", "R", "S",
               "a", "b", "c", "d", "e", "f", "g", "h", "i", "k", "l", "m", "n",
               "o", "p", "r", "s", "t", "u", "v", "x", "y", "z">>

CharCode(c) == CHOOSE i \in 1..Len(CharOrder) : CharOrder[i] = c

\* a < b for JavaScript strings
RECURSIVE StrLess(_, _)
StrLess(a, b) ==
    IF b = <<>> THEN FALSE
    ELSE IF a = <<>> THEN TRUE
    ELSE IF Head(a) = Head(b) THEN StrLess(Tail(a), Tail(b))
    ELSE CharCode(Head(a)) < CharCode(Head(b))

\* ------------------------------------------------------------------------
\* Records handed to the table
\* ------------------------------------------------------------------------
NoRecord ==
    [id |-> 0, firstName |-> Undefined, lastName |-> Undefined, email |-> Undefined,
     username |-> Undefined, position |-> Undefined, type |-> Undefined,
     reason |-> Undefined, status |-> Undefined, userId |-> 0, user |-> <<>>,
     name |-> Undefined, description |-> Undefined]

NoUser ==
    [id |-> 0, firstName |-> Undefined, lastName |-> Undefined, email |-> Undefined,
     position |-> Undefined]

sAnn == <<"A","n","n">>
sBob == <<"B","o","b">>
sLee == <<"L","e","e">>
sCat == <<"C","a","t">>
sDoe == <<"D","o","e">>
sEve == <<"E","v","e">>
sDev == <<"D","e","v">>
sAx == <<"a","@","x",".","c","o","m">>
sBx == <<"b","@","x",".","c","o","m">>
sCy == <<"c","@","y",".","o","r","g">>
sSick == <<"s","i","c","k">>
sAnnual == <<"a","n","n","u","a","l">>
sApproved == <<"a","p","p","r","o","v","e","d">>
sPending == <<"p","e","n","d","i","n","g">>
sSales == <<"S","a","l","e","s">>
sHR == <<"H","R">>
sResearch == <<"R","e","s","e","a","r","c","h">>

\* The auxiliary lookup array once the employees query has resolved.
LoadedEmployees ==
    << [NoUser EXCEPT !.id = 1, !.firstName = sCat, !.lastName = sDoe,
                      !.email = sCy, !.position = sDev],
       [NoUser EXCEPT !.id = 2, !.firstName = sEve] >>

\* A table in global-filter mode over user and leave-request records.
GenericPool ==
    << [NoRecord EXCEPT !.firstName = sAnn, !.lastName = sLee, !.email = sAx],
       [NoRecord EXCEPT !.firstName = sBob, !.lastName = sLee, !.email = sBx],
       [NoRecord EXCEPT !.userId = 1, !.type = sSick, !.status = sApproved],
       NoRecord,
       [NoRecord EXCEPT !.userId = 9, !.type = sAnnual, !.status = sPending],
       [NoRecord EXCEPT !.userId = 2, !.type = sSick, !.status = sPending] >>

\* Rows of /api/reports/...: a nested user plus its records.
ReportsPool ==
    << [NoRecord EXCEPT !.user = << [NoUser EXCEPT !.id = 1, !.firstName = sAnn,
                                     !.lastName = sLee, !.email = sAx] >>],
       [NoRecord EXCEPT !.user = << [NoUser EXCEPT !.id = 2, !.firstName = sBob,
                                     !.lastName = sLee, !.position = sDev] >>],
       [NoRecord EXCEPT !.user = << [NoUser EXCEPT !.id = 3, !.firstName = sCat,
                                     !.lastName = sDoe, !.email = sCy] >>] >>

DepartmentsPool ==
    << [NoRecord EXCEPT !.name = sSales, !.description = sDev],
       [NoRecord EXCEPT !.name = sHR],
       [NoRecord EXCEPT !.name = sResearch],
       [NoRecord EXCEPT !.name = sSales] >>

\* Records whose position came back from the server as a number.
ImportedPool ==
    << [NoRecord EXCEPT !.firstName = sAnn, !.position = sDev],
       [NoRecord EXCEPT !.firstName = sBob, !.position = NumberValue] >>

Kinds == {"generic", "reports", "departments", "imported"}

Pool(k) ==
    CASE k = "generic" -> GenericPool
      [] k = "reports" -> ReportsPool
      [] k = "departments" -> DepartmentsPool
      [] k = "imported" -> ImportedPool

\* The record array of n rows the fetch layer supplies to a table of kind k.
MkData(k, n) ==
    [i \in 1..n |-> [Pool(k)[((i - 1) % Len(Pool(k))) + 1] EXCEPT !.id = i]]

\* ------------------------------------------------------------------------
\* Props of the three table configurations
\* ------------------------------------------------------------------------
\* ids of the columns declared with an accessorKey
AccessorColumns(k) ==
    CASE k = "generic" -> {"id", "firstName", "type", "status"}
      [] k = "reports" -> {"employeeName", "department", "present", "absent",
                           "late", "avgCheckIn"}
      [] k = "departments" -> {"id", "name", "description"}
      [] k = "imported" -> {"id", "firstName", "position"}

\* prop globalFilter
GlobalFilterMode(k) == k \in {"generic", "reports", "imported"}

\* prop searchColumn
SearchColumn(k) == IF k = "departments" THEN "name" ELSE "none"

\* columns a page could give a sort control to
SortColumns(k) ==
    CASE k = "generic" -> {"id"}
      [] k = "reports" -> {"employeeName"}
      [] k = "departments" -> {"id", "name"}
      [] k = "imported" -> {}

StringFields == {"firstName", "lastName", "email", "username", "position", "type",
                 "reason", "status", "name", "description"}

\* typeof row.getValue(col): the accessor reads record[accessorKey]
TypeOfValue(rec, col) ==
    IF col = "id" THEN "number"
    ELSE IF col \in StringFields /\ rec[col] = NumberValue THEN "number"
    ELSE IF col \in StringFields /\ rec[col] # Undefined THEN "string"
    ELSE "undefined"

\* row.getValue(col) of a string column, Undefined when the key is not on the record
StringValue(rec, col) ==
    IF col \in StringFields THEN rec[col] ELSE Undefined

\* ------------------------------------------------------------------------
\* globalFilterFn (part_001 lines 63-115)
\* ------------------------------------------------------------------------
\* employees.find(emp => emp.id === rowData.userId), as a sequence of 0 or 1
FindEmployee(emps, userId) ==
    IF \E i \in 1..Len(emps) : emps[i].id = userId
    THEN << emps[CHOOSE i \in 1..Len(emps) :
                   /\ emps[i].id = userId
                   /\ \A j \in 1..(i - 1) : emps[j].id # userId] >>
    ELSE <<>>

\* faulty variant: an id that does not resolve takes the first employee's name
EmployeeNameFirstWhenMissing(rowData, emps) ==
    IF rowData.userId # 0 /\ Len(emps) > 0
    THEN LET found == FindEmployee(emps, rowData.userId)
             employee == IF found # <<>> THEN found[1] ELSE emps[1]
         IN toLowerCase(TemplateStr(employee.firstName) \o <<" ">>
                        \o TemplateStr(employee.lastName))
    ELSE <<>>

EmployeeName(rowData, emps) ==
    IF rowData.userId # 0 /\ Len(emps) > 0 /\ FindEmployee(emps, rowData.userId) # <<>>
    THEN LET employee == FindEmployee(emps, rowData.userId)[1]
         IN toLowerCase(TemplateStr(employee.firstName) \o <<" ">>
                        \o TemplateStr(employee.lastName))
    ELSE <<>>

\* faulty variant: the resolved employee is not searched
globalFilterFnNoLookup(rowData, value, emps) ==
    IF value = <<>> THEN TRUE
    ELSE
      LET search == toLowerCase(value)
          firstName == LowerOrEmpty(rowData.firstName)
          lastName == LowerOrEmpty(rowData.lastName)
          hasUser == rowData.user # <<>>
          u == IF hasUser THEN rowData.user[1] ELSE NoUser
      IN \/ \E f \in {"firstName", "lastName", "email", "username", "position",
                      "type", "reason", "status"} :
                includes(LowerOrEmpty(rowData[f]), search)
         \/ \E f \in {"firstName", "lastName", "email", "position"} :
                includes(LowerOrEmpty(u[f]), search)
         \/ includes(firstName \o <<" ">> \o lastName, search)
         \/ includes(LowerOrEmpty(u.firstName) \o <<" ">> \o LowerOrEmpty(u.lastName), search)

globalFilterFn(rowData, value, emps) ==
    IF value = <<>> THEN TRUE
    ELSE
      LET search == toLowerCase(value)
          firstName == LowerOrEmpty(rowData.firstName)
          lastName == LowerOrEmpty(rowData.lastName)
          email == LowerOrEmpty(rowData.email)
          username == LowerOrEmpty(rowData.username)
          position == LowerOrEmpty(rowData.position)
          type == LowerOrEmpty(rowData.type)
          reason == LowerOrEmpty(rowData.reason)
          status == LowerOrEmpty(rowData.status)
          employeeName == EmployeeName(rowData, emps)
          hasUser == rowData.user # <<>>
          userFirstName == IF hasUser THEN LowerOrEmpty(rowData.user[1].firstName) ELSE <<>>
          userLastName == IF hasUser THEN LowerOrEmpty(rowData.user[1].lastName) ELSE <<>>
          userEmail == IF hasUser THEN LowerOrEmpty(rowData.user[1].email) ELSE <<>>
          userPosition == IF hasUser THEN LowerOrEmpty(rowData.user[1].position) ELSE <<>>
      IN \/ includes(firstName, search)
         \/ includes(lastName, search)
         \/ includes(email, search)
         \/ includes(username, search)
         \/ includes(position, search)
         \/ includes(type, search)
         \/ includes(reason, search)
         \/ includes(status, search)
         \/ includes(employeeName, search)
         \/ includes(userFirstName, search)
         \/ includes(userLastName, search)
         \/ includes(userEmail, search)
         \/ includes(userPosition, search)
         \/ includes(firstName \o <<" ">> \o lastName, search)
         \/ includes(userFirstName \o <<" ">> \o userLastName, search)

\* the evaluation of globalFilterFn ends in a TypeError instead of a boolean:
\* one of the toLowerCase calls of lines 70-77 and 94-97 has a receiver that is
\* not a string (`${employee.firstName}` of line 84 prints any value)
globalFilterFnThrows(rowData, value) ==
    /\ value # <<>>
    /\ \/ \E f \in {"firstName", "lastName", "email", "username", "position",
                     "type", "reason", "status"} : LowerThrows(rowData[f])
       \/ /\ rowData.user # <<>>
          /\ \E f \in {"firstName", "lastName", "email", "position"} :
                LowerThrows(rowData.user[1][f])

\* ------------------------------------------------------------------------
\* Row models of useReactTable (part_001 lines 52-62)
\* ------------------------------------------------------------------------
\* getCoreRowModel: one row per record, row.index in array order
CoreRowModel(d) == [i \in 1..Len(d) |-> i]

\* column.getCanGlobalFilter with the default getColumnCanGlobalFilter: the value of
\* the column in the first core row is a string or a number
CanGlobalFilter(d, col) ==
    /\ Len(d) > 0
    /\ TypeOfValue(d[1], col) \in {"string", "number"}

GloballyFilterableColumns(k, d) == {c \in AccessorColumns(k) : CanGlobalFilter(d, c)}

\* filterFns.includesString, the filter function of a string column
includesString(rec, col, filterValue) ==
    /\ StringValue(rec, col) # Undefined
    /\ includes(toLowerCase(StringValue(rec, col)), toLowerCase(filterValue))

\* one row against the column filters and, when a column can be filtered
\* globally, against globalFilterFn
RowPasses(k, d, i, cf, gf, emps) ==
    /\ \A j \in 1..Len(cf) : includesString(d[i], cf[j].id, cf[j].value)
    /\ (gf # <<>> /\ GloballyFilterableColumns(k, d) # {}) => globalFilterFn(d[i], gf, emps)

\* faulty variant: the filter looks at the rows of the first page only
FilteredRowModelFirstPage(k, d, cf, gf, emps) ==
    IF Len(d) = 0 \/ (cf = <<>> /\ gf = <<>>) THEN CoreRowModel(d)
    ELSE SelectSeq(CoreRowModel(d), LAMBDA i : i <= 5 /\ RowPasses(k, d, i, cf, gf, emps))

\* faulty variant: an empty filter string is treated as a filter nothing passes
FilteredRowModelEmptyDropsAll(k, d, cf, gf, emps) ==
    IF Len(d) = 0 \/ (cf = <<>> /\ gf = <<>>) THEN <<>>
    ELSE SelectSeq(CoreRowModel(d), LAMBDA i : RowPasses(k, d, i, cf, gf, emps))

\* getFilteredRowModel
FilteredRowModel(k, d, cf, gf, emps) ==
    IF Len(d) = 0 \/ (cf = <<>> /\ gf = <<>>) THEN CoreRowModel(d)
    ELSE SelectSeq(CoreRowModel(d), LAMBDA i : RowPasses(k, d, i, cf, gf, emps))

\* getAutoSortingFn: text when a string is found in flatRows.slice(10) of the
\* filtered rows, basic otherwise
AutoSortingFn(d, rows, col) ==
    IF \E j \in 11..Len(rows) : TypeOfValue(d[rows[j]], col) = "string"
    THEN "text" ELSE "basic"

\* the sorting function applied to rows a and b: -1, 0 or 1
CompareValues(d, fn, col, a, b) ==
    IF col = "id"
    THEN (IF d[a].id = d[b].id THEN 0 ELSE IF d[a].id > d[b].id THEN 1 ELSE -1)
    ELSE
      LET va == StringValue(d[a], col)
          vb == StringValue(d[b], col)
          ka == IF fn = "text" THEN toLowerCase(va) ELSE va
          kb == IF fn = "text" THEN toLowerCase(vb) ELSE vb
      IN IF va = Undefined \/ vb = Undefined
         THEN (IF va = vb THEN 0 ELSE IF va = Undefined THEN 1 ELSE -1)
         ELSE IF ka = kb THEN 0 ELSE IF StrLess(kb, ka) THEN 1 ELSE -1

\* faulty variant: a descending sort also reverses the order of equal rows
RowBeforeTiesReversed(d, fn, entry, a, b) ==
    LET c == CompareValues(d, fn, entry.id, a, b)
        signed == IF entry.desc THEN -c ELSE c
    IN IF signed # 0 THEN signed < 0
       ELSE IF entry.desc THEN a > b ELSE a < b

\* the comparator of sortData: the sort entry, then row.index
RowBefore(d, fn, entry, a, b) ==
    LET c == CompareValues(d, fn, entry.id, a, b)
        signed == IF entry.desc THEN -c ELSE c
    IN IF signed # 0 THEN signed < 0 ELSE a < b

\* rows.sort(comparator): x put into the sorted sequence s
InsertRow(d, fn, entry, x, s) ==
    LET k == Cardinality({m \in 1..Len(s) : RowBefore(d, fn, entry, s[m], x)})
    IN SubSeq(s, 1, k) \o <<x>> \o SubSeq(s, k + 1, Len(s))

RECURSIVE SortRows(_, _, _, _)
SortRows(d, fn, entry, rows) ==
    IF rows = <<>> THEN <<>>
    ELSE InsertRow(d, fn, entry, rows[Len(rows)],
                   SortRows(d, fn, entry, SubSeq(rows, 1, Len(rows) - 1)))

\* getSortedRowModel
SortedRowModel(d, rows, sorting) ==
    IF Len(rows) = 0 \/ sorting = <<>> THEN rows
    ELSE SortRows(d, AutoSortingFn(d, rows, sorting[1].id), sorting[1], rows)

Min(a, b) == IF a < b THEN a ELSE b

Max(a, b) == IF a > b THEN a ELSE b

\* faulty variant: the page ends one row early
PaginationRowModelShort(rows, pageIndex, pageSize) ==
    SubSeq(rows, Min(pageSize * pageIndex, Len(rows)) + 1,
                 Min(pageSize * pageIndex + pageSize - 1, Len(rows)))

\* getPaginationRowModel: rows.slice(pageStart, pageEnd)
PaginationRowModel(rows, pageIndex, pageSize) ==
    LET pageStart == pageSize * pageIndex
        pageEnd == pageStart + pageSize
    IN SubSeq(rows, Min(pageStart, Len(rows)) + 1, Min(pageEnd, Len(rows)))

\* faulty variant: floor + 1 instead of ceil
PageCountOfFloor(n, pageSize) == (n \div pageSize) + 1

\* Math.ceil(n / pageSize)
PageCountOf(n, pageSize) == (n + pageSize - 1) \div pageSize

\* ------------------------------------------------------------------------
\* State of one mounted DataTable (part_001 lines 36-50)
\* ------------------------------------------------------------------------
VARIABLES
    kind,               \* which page configured the table (its props columns,
                        \* searchColumn and globalFilter do not change)
    data,               \* prop data
    employees,          \* prop employees
    memoEmployees,      \* the employees array in the globalFilterFn closure that
                        \* computed the memoised filtered row model
    sorting,            \* SortingState
    columnFilters,      \* ColumnFiltersState
    globalFilterValue,  \* the global filter string
    pagination,         \* [pageIndex, pageSize]
    lastOp,             \* the control operated last (history only, never read)
    prevPageIndex,      \* the page index before that operation (history only)
    prevSorting,        \* the sort state before that operation (history only)
    rolesPage,          \* state of a mounted RolesPage (roles-page.tsx)
    attendance,         \* one attendance record and how the views count it
    reportsPage,        \* state of a mounted ReportsPage (reports-page.tsx)
    departmentsPage     \* state of a mounted DepartmentsPage with its forms

vars == <<kind, data, employees, memoEmployees, sorting, columnFilters,
          globalFilterValue, pagination, lastOp, prevPageIndex, prevSorting,
          rolesPage, attendance, reportsPage, departmentsPage>>

\* the components that are not the DataTable
otherComponents == <<rolesPage, attendance, reportsPage, departmentsPage>>

\* a component that is not part of the specification at hand
NotMounted == [mounted |-> FALSE]

PageSizes == {5, 10, 20, 50}

\* texts typed into the search box
SearchTexts(k) ==
    CASE k = "generic" -> { <<>>, <<" ">>, <<"l","e","e">>, <<"A","N","N">>,
                            <<"a","n","n"," ","l","e","e">>, <<"c","@","y">>,
                            <<"C","a","t"," ","D">>, <<"e">>, <<"z","z">> }
      [] k = "reports" -> { <<>>, <<"a","n","n">>, <<"z","z">> }
      [] k = "departments" -> { <<>>, <<"S","A">>, <<"z","z">> }
      [] k = "imported" -> { <<>>, <<"a","n","n">> }

EmployeeArrays(k) == IF k = "generic" THEN {<<>>, LoadedEmployees} ELSE {<<>>}

\* the memoised filtered row model
Filtered == FilteredRowModel(kind, data, columnFilters, globalFilterValue, memoEmployees)

\* getPrePaginationRowModel
PrePagination == SortedRowModel(data, Filtered, sorting)

\* table.getRowModel().rows
getRowModel == PaginationRowModel(PrePagination, pagination.pageIndex, pagination.pageSize)

\* table.getPageCount()
getPageCount == PageCountOf(Len(PrePagination), pagination.pageSize)

\* getFilteredRowModel calls globalFilterFn for every row of `data` (it fills
\* row.columnFilters before it selects), so one record that makes it throw makes
\* the render throw; the component has no error boundary and is unmounted
RenderThrows ==
    /\ globalFilterValue # <<>>
    /\ GloballyFilterableColumns(kind, data) # {}
    /\ \E i \in 1..Len(data) : globalFilterFnThrows(data[i], globalFilterValue)

getCanPreviousPage == pagination.pageIndex > 0

\* faulty variant: the Next button is never disabled
getCanNextPageAlways == TRUE

getCanNextPage ==
    /\ getPageCount # 0
    /\ pagination.pageIndex < getPageCount - 1

Init ==
    /\ kind \in Kinds
    /\ data \in {MkData(kind, n) : n \in 0..MaxRows}
    /\ employees \in EmployeeArrays(kind)
    /\ memoEmployees = employees
    /\ sorting = <<>>
    /\ columnFilters = <<>>
    /\ globalFilterValue = <<>>
    /\ pagination = [pageIndex |-> 0, pageSize |-> 10]
    /\ lastOp = "mount"
    /\ prevPageIndex = 0
    /\ prevSorting = <<>>
    /\ rolesPage = NotMounted
    /\ attendance = NotMounted
    /\ reportsPage = NotMounted
    /\ departmentsPage = NotMounted

\* ------------------------------------------------------------------------
\* Operations
\* ------------------------------------------------------------------------
\* the value shown in the search box (part_001 line 133)
SearchBoxValue ==
    IF GlobalFilterMode(kind) THEN globalFilterValue
    ELSE IF \E j \in 1..Len(columnFilters) : columnFilters[j].id = SearchColumn(kind)
         THEN columnFilters[CHOOSE j \in 1..Len(columnFilters) :
                              columnFilters[j].id = SearchColumn(kind)].value
         ELSE <<>>

\* column.setFilterValue: an empty string removes the filter of the column
SetFilterValue(old, col, value) ==
    IF value = <<>> THEN SelectSeq(old, LAMBDA f : f.id # col)
    ELSE IF \E j \in 1..Len(old) : old[j].id = col
         THEN [j \in 1..Len(old) |-> IF old[j].id = col THEN [id |-> col, value |-> value]
                                     ELSE old[j]]
         ELSE old \o << [id |-> col, value |-> value] >>

\* faulty variant: the page index is kept when the row model is recomputed
AutoResetPageIndexKeep(p) == p

\* autoResetPageIndex (on by default): a recomputed filtered or sorted row model
\* queues resetPageIndex()
AutoResetPageIndex(p) == [p EXCEPT !.pageIndex = 0]

\* faulty variant: the typed text goes to the global filter and to the filter of
\* the search column, whatever the mode
SearchInputBoth(value) ==
    /\ ~ RenderThrows
    /\ value # SearchBoxValue
    /\ globalFilterValue' = value
    /\ columnFilters' = IF SearchColumn(kind) = "none" THEN columnFilters
                        ELSE SetFilterValue(columnFilters, SearchColumn(kind), value)
    /\ memoEmployees' = employees
    /\ pagination' = AutoResetPageIndex(pagination)
    /\ lastOp' = "search"
    /\ prevPageIndex' = pagination.pageIndex
    /\ prevSorting' = sorting
    /\ UNCHANGED otherComponents
    /\ UNCHANGED <<kind, data, employees, sorting>>

\* onChange of the search input (part_001 lines 134-141)
SearchInput(value) ==
    /\ ~ RenderThrows
    /\ value # SearchBoxValue
    /\ IF GlobalFilterMode(kind)
       THEN /\ globalFilterValue' = value
            /\ UNCHANGED columnFilters
       ELSE /\ columnFilters' = SetFilterValue(columnFilters, SearchColumn(kind), value)
            /\ UNCHANGED globalFilterValue
    /\ memoEmployees' = employees
    /\ pagination' = AutoResetPageIndex(pagination)
    /\ lastOp' = "search"
    /\ prevPageIndex' = pagination.pageIndex
    /\ prevSorting' = sorting
    /\ UNCHANGED otherComponents
    /\ UNCHANGED <<kind, data, employees, sorting>>

\* faulty variant: the page size changes and the page index is kept
SetPageSizeKeepIndex(n) ==
    /\ ~ RenderThrows
    /\ pagination' = [pagination EXCEPT !.pageSize = Max(1, n)]
    /\ lastOp' = "pageSize"
    /\ prevPageIndex' = pagination.pageIndex
    /\ prevSorting' = sorting
    /\ UNCHANGED otherComponents
    /\ UNCHANGED <<kind, data, employees, memoEmployees, sorting, columnFilters,
                   globalFilterValue>>

\* table.setPageSize (part_001 lines 202-204)
SetPageSize(n) ==
    /\ ~ RenderThrows
    /\ pagination' = [pageIndex |-> (pagination.pageSize * pagination.pageIndex) \div Max(1, n),
                      pageSize |-> Max(1, n)]
    /\ lastOp' = "pageSize"
    /\ prevPageIndex' = pagination.pageIndex
    /\ prevSorting' = sorting
    /\ UNCHANGED otherComponents
    /\ UNCHANGED <<kind, data, employees, memoEmployees, sorting, columnFilters,
                   globalFilterValue>>

\* faulty variant: Previous is never disabled and the index is not clamped
PreviousPageUnchecked ==
    /\ ~ RenderThrows
    /\ pagination.pageIndex > -2
    /\ pagination' = [pagination EXCEPT !.pageIndex = @ - 1]
    /\ lastOp' = "previous"
    /\ prevPageIndex' = pagination.pageIndex
    /\ prevSorting' = sorting
    /\ UNCHANGED otherComponents
    /\ UNCHANGED <<kind, data, employees, memoEmployees, sorting, columnFilters,
                   globalFilterValue>>

\* click on Previous, disabled unless getCanPreviousPage (part_001 lines 224-232)
PreviousPage ==
    /\ ~ RenderThrows
    /\ pagination' = IF getCanPreviousPage
                     THEN [pagination EXCEPT !.pageIndex = Max(0, @ - 1)]
                     ELSE pagination
    /\ lastOp' = "previous"
    /\ prevPageIndex' = pagination.pageIndex
    /\ prevSorting' = sorting
    /\ UNCHANGED otherComponents
    /\ UNCHANGED <<kind, data, employees, memoEmployees, sorting, columnFilters,
                   globalFilterValue>>

\* click on Next, disabled unless getCanNextPage (part_001 lines 233-241)
NextPage ==
    /\ ~ RenderThrows
    /\ pagination' = IF getCanNextPage
                     THEN [pagination EXCEPT !.pageIndex = @ + 1]
                     ELSE pagination
    /\ lastOp' = "next"
    /\ prevPageIndex' = pagination.pageIndex
    /\ prevSorting' = sorting
    /\ UNCHANGED otherComponents
    /\ UNCHANGED <<kind, data, employees, memoEmployees, sorting, columnFilters,
                   globalFilterValue>>

\* getAutoSortDir: ascending first for a column whose first filtered row holds a string
FirstSortDesc(col) ==
    ~ (Len(Filtered) > 0 /\ TypeOfValue(data[Filtered[1]], col) = "string")

\* faulty variant: the sort is done on the caller's array (data.sort(...))
ToggleSortingInPlace(col) ==
    /\ ~ RenderThrows
    /\ col \in SortColumns(kind)
    /\ LET sorted == sorting # <<>> /\ sorting[1].id = col
           first == FirstSortDesc(col)
           next == IF ~ sorted THEN << [id |-> col, desc |-> first] >>
                   ELSE IF sorting[1].desc # first THEN <<>>
                   ELSE << [id |-> col, desc |-> ~ sorting[1].desc] >>
           order == SortedRowModel(data, CoreRowModel(data), next)
       IN /\ sorting' = next
          /\ data' = [j \in 1..Len(data) |-> data[order[j]]]
    /\ pagination' = AutoResetPageIndex(pagination)
    /\ lastOp' = "sort"
    /\ prevPageIndex' = pagination.pageIndex
    /\ prevSorting' = sorting
    /\ UNCHANGED otherComponents
    /\ UNCHANGED <<kind, employees, memoEmployees, columnFilters, globalFilterValue>>

\* faulty variant: the toggled column is added to the sort state, as a
\* multi-sort toggle does
ToggleSortingAppend(col) ==
    /\ ~ RenderThrows
    /\ col \in SortColumns(kind)
    /\ LET first == FirstSortDesc(col)
           others == SelectSeq(sorting, LAMBDA e : e.id # col)
           own == SelectSeq(sorting, LAMBDA e : e.id = col)
       IN sorting' =
            IF own = <<>> THEN others \o << [id |-> col, desc |-> first] >>
            ELSE IF own[1].desc # first THEN others
            ELSE others \o << [id |-> col, desc |-> ~ own[1].desc] >>
    /\ pagination' = AutoResetPageIndex(pagination)
    /\ lastOp' = "sort"
    /\ prevPageIndex' = pagination.pageIndex
    /\ prevSorting' = sorting
    /\ UNCHANGED otherComponents
    /\ UNCHANGED <<kind, data, employees, memoEmployees, columnFilters, globalFilterValue>>

\* column.toggleSorting() through onSortingChange (part_001 lines 44, 57)
ToggleSorting(col) ==
    /\ ~ RenderThrows
    /\ col \in SortColumns(kind)
    /\ LET sorted == sorting # <<>> /\ sorting[1].id = col
           first == FirstSortDesc(col)
       IN sorting' =
            IF ~ sorted THEN << [id |-> col, desc |-> first] >>
            ELSE IF sorting[1].desc # first THEN <<>>
            ELSE << [id |-> col, desc |-> ~ sorting[1].desc] >>
    /\ pagination' = AutoResetPageIndex(pagination)
    /\ lastOp' = "sort"
    /\ prevPageIndex' = pagination.pageIndex
    /\ prevSorting' = sorting
    /\ UNCHANGED otherComponents
    /\ UNCHANGED <<kind, data, employees, memoEmployees, columnFilters, globalFilterValue>>

\* faulty variant: the filtered row model keeps the lookup closure it was
\* computed with when the record array changes
SetDataStaleLookup(n) ==
    /\ ~ RenderThrows
    /\ n \in {Len(data) - 1, Len(data) + 1, 0}
    /\ MkData(kind, n) # data
    /\ data' = MkData(kind, n)
    /\ pagination' = AutoResetPageIndex(pagination)
    /\ lastOp' = "data"
    /\ prevPageIndex' = pagination.pageIndex
    /\ prevSorting' = sorting
    /\ UNCHANGED otherComponents
    /\ UNCHANGED <<kind, employees, memoEmployees, sorting, columnFilters,
                   globalFilterValue>>

\* the fetch layer supplies another record array: a record was created or
\* deleted elsewhere, or the query came back empty
SetData(n) ==
    /\ ~ RenderThrows
    /\ n \in {Len(data) - 1, Len(data) + 1, 0}
    /\ MkData(kind, n) # data
    /\ data' = MkData(kind, n)
    /\ memoEmployees' = employees
    /\ pagination' = AutoResetPageIndex(pagination)
    /\ lastOp' = "data"
    /\ prevPageIndex' = pagination.pageIndex
    /\ prevSorting' = sorting
    /\ UNCHANGED otherComponents
    /\ UNCHANGED <<kind, employees, sorting, columnFilters, globalFilterValue>>

\* the page supplies another employees array; data and filter state are the same,
\* so no row model is recomputed
SetEmployees(emps) ==
    /\ ~ RenderThrows
    /\ emps # employees
    /\ employees' = emps
    /\ lastOp' = "employees"
    /\ prevPageIndex' = pagination.pageIndex
    /\ prevSorting' = sorting
    /\ UNCHANGED otherComponents
    /\ UNCHANGED <<kind, data, memoEmployees, sorting, columnFilters, globalFilterValue,
                   pagination>>

Next ==
    \/ \E value \in SearchTexts(kind) : SearchInput(value)
    \/ \E n \in PageSizes : SetPageSize(n)
    \/ PreviousPage
    \/ NextPage
    \/ \E col \in SortColumns(kind) : ToggleSorting(col)
    \/ \E n \in 0..MaxRows : SetData(n)
    \/ \E emps \in EmployeeArrays(kind) : SetEmployees(emps)

Spec == Init /\ [][Next]_vars

\* ------------------------------------------------------------------------
\* Reference view: the records that pass the filter, in sort order, defined
\* from the set of passing rows and the comparator alone
\* ------------------------------------------------------------------------
RefPass ==
    {i \in 1..Len(data) :
        RowPasses(kind, data, i, columnFilters, globalFilterValue, memoEmployees)}

\* the members of a set of row indexes in array order
Ascending(S) ==
    LET before == [i \in S |-> Cardinality({m \in S : m < i})]
    IN [r \in 1..Cardinality(S) |-> CHOOSE i \in S : before[i] = r - 1]

\* the members of a set of row indexes in the order of the sort state
RefSortedOf(S) ==
    IF sorting = <<>> THEN Ascending(S)
    ELSE
      LET fn == AutoSortingFn(data, Ascending(S), sorting[1].id)
          before == [i \in S |->
                       Cardinality({m \in S : RowBefore(data, fn, sorting[1], m, i)})]
      IN [r \in 1..Cardinality(S) |-> CHOOSE i \in S : before[i] = r - 1]

RefSorted == RefSortedOf(RefPass)

Range(f) == {f[x] : x \in DOMAIN f}

PageStart == pagination.pageIndex * pagination.pageSize

\* the visible rows of pages 0..k-1, one after the other
RECURSIVE ConcatPages(_, _)
ConcatPages(rows, k) ==
    IF k = 0 THEN <<>>
    ELSE ConcatPages(rows, k - 1) \o PaginationRowModel(rows, k - 1, pagination.pageSize)

FilterActive == globalFilterValue # <<>> \/ columnFilters # <<>>

\* ------------------------------------------------------------------------
\* Claims
\* ------------------------------------------------------------------------

\* C1: in every reachable state the visible rows are the slice
\* [pageIndex*pageSize, (pageIndex+1)*pageSize) of the records of the full array
\* that pass the filter, taken in sort order (the lookup array is the one the
\* filter was evaluated with).
C1_VisibleIsSliceOfFilteredSorted ==
    LET ref == RefSorted
        visible == getRowModel
        cnt == Max(0, Min(pagination.pageSize, Len(ref) - PageStart))
    IN /\ Len(visible) = cnt
       /\ \A j \in 1..cnt : visible[j] = ref[PageStart + j]

\* C1 witness: a filter that drops rows of every page, an active sort, and the
\* second page on screen.
C1_Witness ==
    /\ FilterActive
    /\ sorting # <<>>
    /\ pagination.pageIndex = 1
    /\ Len(getRowModel) > 0
    /\ \E i \in 1..Len(data) : i > pagination.pageSize /\ i \notin RefPass
    /\ \E i \in 1..pagination.pageSize : i \notin RefPass

\* the match the specification describes for a non-empty filter string
SpecifiedMatch(rec, s, emps) ==
    LET search == toLowerCase(s)
        first == LowerOrEmpty(rec.firstName)
        last == LowerOrEmpty(rec.lastName)
        resolved == IF rec.userId # 0 THEN FindEmployee(emps, rec.userId) ELSE <<>>
        referenced == resolved \o rec.user
    IN \/ \E f \in {"firstName", "lastName", "email", "username", "position", "type",
                    "reason", "status"} : includes(LowerOrEmpty(rec[f]), search)
       \/ includes(first \o <<" ">> \o last, search)
       \/ \E j \in 1..Len(referenced) :
             \/ includes(LowerOrEmpty(referenced[j].firstName), search)
             \/ includes(LowerOrEmpty(referenced[j].lastName), search)
             \/ includes(LowerOrEmpty(referenced[j].firstName) \o <<" ">>
                         \o LowerOrEmpty(referenced[j].lastName), search)

\* C2: in global-filter mode with a non-empty filter string, a record is in the
\* filtered set if and only if the string matches one of its searched fields;
\* this is stated for every table in global-filter mode, the reports table included.
C2_FilteredIffMatches ==
    (GlobalFilterMode(kind) /\ globalFilterValue # <<>>) =>
        \A i \in 1..Len(data) :
            (i \in Range(Filtered)) <=>
                SpecifiedMatch(data[i], globalFilterValue, memoEmployees)

\* C3: the visible rows of pages 0..pageCount-1, concatenated, are the
\* filtered-and-sorted sequence: nothing twice, nothing left out.
C3_PagesCoverFilteredSorted ==
    LET rows == PrePagination
        pages == ConcatPages(rows, PageCountOf(Len(rows), pagination.pageSize))
        ref == RefSorted
    IN /\ Len(pages) = Len(ref)
       /\ \A j \in 1..Len(ref) : pages[j] = ref[j]
       /\ Len(pages) = Cardinality(Range(pages))

\* C3 witness: three pages, the last one partly filled, under a filter and a sort.
C3_Witness ==
    /\ getPageCount = 3
    /\ Cardinality(RefPass) % pagination.pageSize # 0
    /\ globalFilterValue # <<>>
    /\ sorting # <<>>

\* C4: after a filter change that shrinks the filtered set so that the page
\* index would exceed the new last page, the page index is within
\* [0, newPageCount-1].
C4_PageClampAfterFilter ==
    ( /\ lastOp = "search"
      /\ prevPageIndex >= 1
      /\ prevPageIndex > getPageCount - 1 )
    => ( /\ pagination.pageIndex >= 0
         /\ pagination.pageIndex <= getPageCount - 1 )

InPageRange == pagination.pageIndex >= 0 /\ pagination.pageIndex <= getPageCount - 1

\* C5: Previous is a no-op on page 0 and Next is a no-op on the last page, so
\* neither moves the page index out of [0, pageCount-1]; 12 records at page
\* size 10 give pages of 10 and 2 rows, page count 2, and Next stops on page 1.
C5_NextPreviousStayInRange ==
    /\ [][ /\ (lastOp' = "next" /\ NextPage) =>
               pagination'.pageIndex =
                   IF pagination.pageIndex < getPageCount - 1
                   THEN pagination.pageIndex + 1 ELSE pagination.pageIndex
           /\ (lastOp' = "previous" /\ PreviousPage) =>
               pagination'.pageIndex =
                   IF pagination.pageIndex = 0 THEN 0 ELSE pagination.pageIndex - 1
           /\ (lastOp' \in {"next", "previous"} /\ (NextPage \/ PreviousPage) /\ InPageRange)
                  => ( /\ pagination'.pageIndex >= 0
                       /\ pagination'.pageIndex <= getPageCount - 1
                       /\ pagination'.pageSize = pagination.pageSize
                       /\ UNCHANGED <<data, memoEmployees, sorting, columnFilters,
                                      globalFilterValue>> ) ]_vars
    /\ [] ( (Len(data) = 12 /\ ~ FilterActive /\ pagination.pageSize = 10) =>
              /\ getPageCount = 2
              /\ Len(PaginationRowModel(PrePagination, 0, 10)) = 10
              /\ Len(PaginationRowModel(PrePagination, 1, 10)) = 2
              /\ pagination.pageIndex <= 1 )

\* C5 witness: 12 records, page size 10, Next clicked while page 1 (2 rows) is shown.
C5_Witness ==
    /\ Len(data) = 12
    /\ ~ FilterActive
    /\ pagination = [pageIndex |-> 1, pageSize |-> 10]
    /\ Len(getRowModel) = 2
    /\ lastOp = "next"
    /\ ~ getCanNextPage

\* C6: with no record to show (an empty array, or a filter matching nothing)
\* there are zero visible rows and the reported page count is 1.
C6_EmptyTableHasOnePage ==
    Len(PrePagination) = 0 => (Len(getRowModel) = 0 /\ getPageCount = 1)

\* C7: the reported page count is ceil(filtered rows / page size): the least
\* number of pages of pageSize rows that hold every filtered row.
C7_PageCountIsCeiling ==
    LET n == Cardinality(RefPass)
    IN /\ getPageCount * pagination.pageSize >= n
       /\ (getPageCount - 1) * pagination.pageSize < n

\* C7 witness: a filter that removes rows and leaves a partly filled last page.
C7_Witness ==
    /\ FilterActive
    /\ Cardinality(RefPass) < Len(data)
    /\ getPageCount >= 2
    /\ Cardinality(RefPass) % pagination.pageSize # 0

\* C8 as stated: a global filter change leaves the page index alone when it is
\* still a valid page of the new filtered set, and resets it to 0 otherwise.
C8_ResetOnlyWhenOutOfRange ==
    (lastOp = "search" /\ GlobalFilterMode(kind)) =>
        pagination.pageIndex =
            IF prevPageIndex <= getPageCount - 1 THEN prevPageIndex ELSE 0

\* C8 amended: every change of the global filter string resets the page index
\* to 0, also when the current page is still a valid page afterwards.
C8_FilterChangeResetsPage ==
    (lastOp = "search" /\ GlobalFilterMode(kind)) => pagination.pageIndex = 0

\* C8 witness: the global filter was changed on page 1, page 1 is still a valid
\* page of the new filtered set, and the table shows page 0.
C8_Witness ==
    /\ lastOp = "search"
    /\ GlobalFilterMode(kind)
    /\ prevPageIndex = 1
    /\ getPageCount >= 2
    /\ pagination.pageIndex = 0

\* the employee a record's userId resolves to, as a sequence of 0 or 1
Resolved(rec) == IF rec.userId # 0 THEN FindEmployee(employees, rec.userId) ELSE <<>>

\* C9 as stated: a filter string contained in the resolved employee's first
\* name, last name, email, position or 'first last' matches the record.
C9_ResolvedFieldsMatch ==
    \A i \in 1..Len(data) :
        \A j \in 1..Len(Resolved(data[i])) :
            LET e == Resolved(data[i])[j]
                search == toLowerCase(globalFilterValue)
            IN ( /\ globalFilterValue # <<>>
                 /\ \/ \E f \in {"firstName", "lastName", "email", "position"} :
                          includes(LowerOrEmpty(e[f]), search)
                    \/ includes(LowerOrEmpty(e.firstName) \o <<" ">>
                                \o LowerOrEmpty(e.lastName), search) )
               => globalFilterFn(data[i], globalFilterValue, employees)

\* C9 amended: a filter string contained in the resolved employee's first name,
\* last name or 'first last' matches the record; the resolved employee's email
\* and position are not searched.
C9_ResolvedNameMatches ==
    \A i \in 1..Len(data) :
        \A j \in 1..Len(Resolved(data[i])) :
            LET e == Resolved(data[i])[j]
                search == toLowerCase(globalFilterValue)
            IN ( /\ globalFilterValue # <<>>
                 /\ \/ \E f \in {"firstName", "lastName"} :
                          includes(LowerOrEmpty(e[f]), search)
                    \/ includes(LowerOrEmpty(e.firstName) \o <<" ">>
                                \o LowerOrEmpty(e.lastName), search) )
               => globalFilterFn(data[i], globalFilterValue, employees)

\* C9 witness: 'Cat D' is typed and a record is kept only because its userId
\* resolves to the employee Cat Doe.
C9_Witness ==
    /\ lastOp = "search"
    /\ globalFilterValue = <<"C","a","t"," ","D">>
    /\ memoEmployees = employees
    /\ \E i \in Range(Filtered) :
          /\ Resolved(data[i]) # <<>>
          /\ ~ globalFilterFn(data[i], globalFilterValue, <<>>)

\* none of the searched fields is on the record and it references nobody
NothingToSearch(rec) ==
    /\ \A f \in {"firstName", "lastName", "email", "username", "position", "type",
                 "reason", "status"} : rec[f] = Undefined
    /\ rec.user = <<>>
    /\ Resolved(rec) = <<>>

\* C10: a record with none of the searched fields and no resolvable reference
\* matches no non-empty filter string, whitespace included.
C10_MissingFieldsNeverMatch ==
    \A i \in 1..Len(data) :
        (globalFilterValue # <<>> /\ NothingToSearch(data[i]))
            => ~ globalFilterFn(data[i], globalFilterValue, employees)

\* C11: evaluating the global filter never raises an error, whatever the records
\* hold: a well-known field that is absent, null or not a string counts as the
\* empty string.
C11_GlobalFilterNeverRaises == ~ RenderThrows

\* C12: whenever the global filter string is empty, also after it was set and
\* cleared again, the filtered-and-sorted sequence is every record of the array
\* in sort order, and the visible rows are the page of that sequence: the view
\* of a table that was never filtered.
C12_EmptyFilterShowsAll ==
    (GlobalFilterMode(kind) /\ globalFilterValue = <<>>) =>
        LET ref == RefSortedOf(1..Len(data))
            rows == PrePagination
            unfiltered == SortedRowModel(data, CoreRowModel(data), sorting)
        IN /\ Len(rows) = Len(data)
           /\ \A j \in 1..Len(rows) : rows[j] = ref[j]
           /\ getRowModel = PaginationRowModel(unfiltered, pagination.pageIndex,
                                               pagination.pageSize)

\* C12 witness: the search box of a sorted table was just cleared, and the text
\* it held before had removed rows.
C12_Witness ==
    /\ lastOp = "search"
    /\ GlobalFilterMode(kind)
    /\ globalFilterValue = <<>>
    /\ sorting # <<>>
    /\ Len(data) >= 6
    /\ Len(getRowModel) >= 6

\* the strings a filter string is an extension of: what the box held while
\* the string was typed
Prefixes(s) == {SubSeq(s, 1, n) : n \in 0..Len(s)}

\* the records of the present array that match the global filter string s
MatchingRecords(s) == Range(FilteredRowModel(kind, data, <<>>, s, memoEmployees))

\* C13: filter monotonicity: when s2 is s1 with characters appended, the records
\* matching s2 are among the records matching s1; checked for the filter string
\* in force as s2 and each of its prefixes as s1, over every record array.
C13_FilterMonotone ==
    GlobalFilterMode(kind) =>
        \A s1 \in Prefixes(globalFilterValue) :
            Range(Filtered) \subseteq MatchingRecords(s1)

\* C13 witness: 'ann lee' is in force; its prefix 'ann' matches more records
\* than it does, and the empty prefix more than 'ann'.
C13_Witness ==
    /\ GlobalFilterMode(kind)
    /\ globalFilterValue = <<"a","n","n"," ","l","e","e">>
    /\ Range(Filtered) # {}
    /\ Range(Filtered) # MatchingRecords(<<"a","n","n">>)
    /\ MatchingRecords(<<"a","n","n">>) # MatchingRecords(<<>>)

\* what an engine created now would compute before pagination: the present
\* array filtered with the present props and state, then sorted
FromScratch ==
    SortedRowModel(data,
                   FilteredRowModel(kind, data, columnFilters, globalFilterValue, employees),
                   sorting)

\* C14: after the fetch layer supplied another record array, the visible rows
\* and the page count are those an engine created with the same filter, sort
\* and pagination state computes from the new array, and every visible row is a
\* record of the new array.
C14_DataChangeRecomputes ==
    lastOp = "data" =>
        LET fresh == FromScratch
        IN /\ getRowModel = PaginationRowModel(fresh, pagination.pageIndex,
                                               pagination.pageSize)
           /\ getPageCount = PageCountOf(Len(fresh), pagination.pageSize)
           /\ \A j \in 1..Len(getRowModel) : getRowModel[j] \in 1..Len(data)

\* C14 witness: the array changed under a filter that keeps a record through
\* the lookup array, and rows are on screen.
C14_Witness ==
    /\ lastOp = "data"
    /\ globalFilterValue = <<"C","a","t"," ","D">>
    /\ employees = LoadedEmployees
    /\ Len(getRowModel) >= 1
    /\ Len(getRowModel) < Len(data)

\* C15: after the lookup array changed while the record array and the global
\* filter string stayed the same, the filtered rows are those computed from
\* scratch with the new lookup array.
C15_LookupChangeRecomputes ==
    lastOp = "employees" =>
        Filtered = FilteredRowModel(kind, data, columnFilters, globalFilterValue, employees)

\* C16: sort, column-filter, global-filter and pagination state change only
\* through a user control; a step in which the page re-supplies the record
\* array (or the lookup array) leaves all four as they were.
C16_StateChangesOnlyByUserAction ==
    [][ (data' # data \/ employees' # employees) =>
            UNCHANGED <<sorting, columnFilters, globalFilterValue, pagination>> ]_vars

\* column.getIsSorted()
SortDirection(col) ==
    IF sorting # <<>> /\ sorting[1].id = col
    THEN (IF sorting[1].desc THEN "desc" ELSE "asc")
    ELSE "none"

\* C17: each activation of a column's sort control moves that column's
\* direction one step along none -> ascending -> descending -> none, and with
\* the sort removed again the rows are in the order of the record array.
C17_SortCycle ==
    /\ [][ \A col \in SortColumns(kind) :
              (lastOp' = "sort" /\ sorting' # sorting
                 /\ (IF sorting' # <<>> THEN sorting'[1].id = col
                                        ELSE sorting[1].id = col))
              => SortDirection(col)' =
                    CASE SortDirection(col) = "none" -> "asc"
                      [] SortDirection(col) = "asc" -> "desc"
                      [] SortDirection(col) = "desc" -> "none" ]_vars
    /\ [] ( (lastOp = "sort" /\ sorting = <<>>) =>
              \A j \in 1..(Len(PrePagination) - 1) :
                  PrePagination[j] < PrePagination[j + 1] )

TiedOnSortKey(a, b) ==
    CompareValues(data, AutoSortingFn(data, Filtered, sorting[1].id), sorting[1].id, a, b) = 0

\* C19: sorting is stable: in the sorted view, records that compare equal on
\* the active sort key stand in the order they have in the record array, in
\* either direction, and sorting the sorted view again changes nothing.
C19_SortStable ==
    sorting # <<>> =>
        LET rows == PrePagination
            fn == AutoSortingFn(data, Filtered, sorting[1].id)
        IN /\ \A j1, j2 \in 1..Len(rows) :
                 (j1 < j2 /\ TiedOnSortKey(rows[j1], rows[j2])) => rows[j1] < rows[j2]
           /\ SortRows(data, fn, sorting[1], rows) = rows

\* C19 witness: a descending sort by name that moved rows, with two records of
\* the same name that other records separate in the array.
C19_Witness ==
    /\ sorting = << [id |-> "name", desc |-> TRUE] >>
    /\ PrePagination # Filtered
    /\ \E a, b \in Range(PrePagination) :
          /\ a + 1 < b
          /\ TiedOnSortKey(a, b)
          /\ ~ TiedOnSortKey(a, a + 1)

\* the controls of the table
EngineOperations == {"search", "sort", "pageSize", "next", "previous"}

\* C20: no operation of the table (search, sort, page size, next, previous)
\* changes the content or the order of the record array it was given; the
\* array changes only when the page supplies another one.
C20_DataNeverMutated ==
    [][ lastOp' \in EngineOperations => data' = data ]_vars

\* C20 witness: a sort was just toggled, the view shows the records in another
\* order than the array, and the array is as the page supplied it.
C20_Witness ==
    /\ lastOp = "sort"
    /\ sorting # <<>>
    /\ Len(data) >= 2
    /\ PrePagination # CoreRowModel(data)
    /\ data = MkData(kind, Len(data))

\* C21: with global-filter mode off, the text of the search box is the filter of
\* the configured search column and of no other column, the rows kept are those
\* whose value in that column contains the text (letter case ignored), and the
\* global filter string stays empty; with global-filter mode on, the text is the
\* global filter string and there is no column filter.
C21_SearchBoxSetsOneFilter ==
    IF GlobalFilterMode(kind)
    THEN columnFilters = <<>>
    ELSE /\ globalFilterValue = <<>>
         /\ Len(columnFilters) <= 1
         /\ \A j \in 1..Len(columnFilters) :
               /\ columnFilters[j].id = SearchColumn(kind)
               /\ columnFilters[j].value # <<>>
               /\ \A i \in 1..Len(data) :
                     (i \in Range(Filtered)) <=>
                        ( /\ data[i][SearchColumn(kind)] # Undefined
                          /\ includes(toLowerCase(data[i][SearchColumn(kind)]),
                                      toLowerCase(columnFilters[j].value)) )

\* C21 witness: 'SA' was typed into the search box of the departments table
\* and the departments named Sales are the rows kept.
C21_Witness ==
    /\ lastOp = "search"
    /\ ~ GlobalFilterMode(kind)
    /\ columnFilters = << [id |-> "name", value |-> <<"S","A">>] >>
    /\ Range(Filtered) # {}
    /\ Cardinality(Range(Filtered)) < Len(data)

\* C22: the table is mounted on page index 0 with page size 10, and in every
\* reachable state the page index is at least 0 and the page size is one of
\* 5, 10, 20 and 50.
C22_PaginationStateInvariant ==
    /\ lastOp = "mount" => pagination = [pageIndex |-> 0, pageSize |-> 10]
    /\ pagination.pageIndex >= 0
    /\ pagination.pageSize \in {5, 10, 20, 50}

\* C22 witness: the page size was set to 50 and later Previous was clicked on
\* the first page.
C22_Witness ==
    /\ lastOp = "previous"
    /\ prevPageIndex = 0
    /\ pagination = [pageIndex |-> 0, pageSize |-> 50]
    /\ Len(data) > 0

\* C24: a change of the page size to n sets the page size to n and the page
\* index to floor(oldIndex * oldSize / n), so that the row that was first on the
\* old page is on the new page; rows, filters and sort are left alone, and an
\* index that was a valid page before is a valid page afterwards.
C24_PageSizeChangeKeepsTopRow ==
    [][ \A n \in PageSizes :
          (lastOp' = "pageSize" /\ SetPageSize(n)) =>
             LET top == pagination.pageIndex * pagination.pageSize
                 rows == Len(PrePagination)
             IN /\ pagination'.pageSize = n
                /\ pagination'.pageIndex = top \div n
                /\ pagination'.pageIndex * n <= top
                /\ top < (pagination'.pageIndex + 1) * n
                /\ UNCHANGED <<data, memoEmployees, sorting, columnFilters,
                               globalFilterValue>>
                /\ (pagination.pageIndex <= PageCountOf(rows, pagination.pageSize) - 1)
                      => ( /\ pagination'.pageIndex >= 0
                           /\ pagination'.pageIndex <= PageCountOf(rows, n) - 1 ) ]_vars

\* C24 witness: on page index 1 of 12 or more rows at 10 rows per page the size
\* was set to 5, and the table shows page index 2, which starts with row 11.
C24_Witness ==
    /\ lastOp = "pageSize"
    /\ prevPageIndex = 1
    /\ pagination = [pageIndex |-> 2, pageSize |-> 5]
    /\ Len(getRowModel) >= 1
    /\ getRowModel[1] = PrePagination[11]

\* a non-empty filter string matches one of the record's own fields, its
\* 'first last', or a field or the 'first last' of its nested user
OwnFieldsMatch(rec, s) ==
    LET search == toLowerCase(s)
        u == IF rec.user # <<>> THEN rec.user[1] ELSE NoUser
    IN \/ \E f \in {"firstName", "lastName", "email", "username", "position", "type",
                    "reason", "status"} : includes(LowerOrEmpty(rec[f]), search)
       \/ includes(LowerOrEmpty(rec.firstName) \o <<" ">> \o LowerOrEmpty(rec.lastName),
                   search)
       \/ /\ rec.user # <<>>
          /\ \/ \E f \in {"firstName", "lastName", "email", "position"} :
                   includes(LowerOrEmpty(u[f]), search)
             \/ includes(LowerOrEmpty(u.firstName) \o <<" ">> \o LowerOrEmpty(u.lastName),
                         search)

\* C23: when the lookup array is empty or has no entry with the record's
\* userId, the lookup adds nothing: the record matches a non-empty global
\* filter string exactly when its own fields or its nested user's fields do.
C23_UnresolvedLookupAddsNothing ==
    \A i \in 1..Len(data) :
        (globalFilterValue # <<>> /\ FindEmployee(employees, data[i].userId) = <<>>)
            => ( globalFilterFn(data[i], globalFilterValue, employees)
                   <=> OwnFieldsMatch(data[i], globalFilterValue) )

\* C23 witness: with the employees loaded, 'Cat D' is in force, a record whose
\* userId resolves to nobody is filtered out and a record whose userId
\* resolves to Cat Doe is kept.
C23_Witness ==
    /\ employees = LoadedEmployees
    /\ memoEmployees = employees
    /\ globalFilterValue = <<"C","a","t"," ","D">>
    /\ \E i \in 1..Len(data) :
          /\ data[i].userId # 0
          /\ FindEmployee(employees, data[i].userId) = <<>>
          /\ i \notin Range(Filtered)
    /\ \E i \in Range(Filtered) : FindEmployee(employees, data[i].userId) # <<>>

\* ------------------------------------------------------------------------
\* The DataTable variables in a specification of another component
\* ------------------------------------------------------------------------
tableVars == <<kind, data, employees, memoEmployees, sorting, columnFilters,
               globalFilterValue, pagination, lastOp, prevPageIndex, prevSorting>>

TableNotMounted ==
    /\ kind = "departments"
    /\ data = <<>>
    /\ employees = <<>>
    /\ memoEmployees = <<>>
    /\ sorting = <<>>
    /\ columnFilters = <<>>
    /\ globalFilterValue = <<>>
    /\ pagination = [pageIndex |-> 0, pageSize |-> 10]
    /\ lastOp = "unmounted"
    /\ prevPageIndex = 0
    /\ prevSorting = <<>>

\* ------------------------------------------------------------------------
\* RolesPage (client/src/pages/roles-page.tsx)
\* ------------------------------------------------------------------------
\* values of the role Select (lines 262-265)
Roles == {"employee", "manager", "hr", "admin"}

\* ids of PERMISSIONS (client/src/lib/permissions.ts)
Permissions == {"view_employees", "approve_leave", "manage_roles"}

\* DEFAULT_ROLE_PERMISSIONS[role] || []
DEFAULT_ROLE_PERMISSIONS(role) ==
    CASE role = "employee" -> {"view_employees"}
      [] role = "manager" -> {"view_employees", "approve_leave"}
      [] role = "hr" -> {"view_employees", "approve_leave"}
      [] role = "admin" -> {"view_employees", "approve_leave", "manage_roles"}
      [] OTHER -> {}

\* rows of the /api/employees query: id, role and customPermissions || []
RoleUsers ==
    { [id |-> 1, role |-> "employee", customPermissions |-> <<>>],
      [id |-> 2, role |-> "manager", customPermissions |-> <<"manage_roles">>] }

NoRequest == [userId |-> 0, role |-> "", customPermissions |-> <<>>]

\* faulty variant: a default permission is toggled like any other
togglePermissionAny(role, prev, permissionId) ==
    IF \E j \in 1..Len(prev) : prev[j] = permissionId
    THEN SelectSeq(prev, LAMBDA p : p # permissionId)
    ELSE Append(prev, permissionId)

\* togglePermission (lines 112-127): the next editingPermissions
togglePermission(role, prev, permissionId) ==
    IF permissionId \in DEFAULT_ROLE_PERMISSIONS(role) THEN prev
    ELSE IF \E j \in 1..Len(prev) : prev[j] = permissionId
         THEN SelectSeq(prev, LAMBDA p : p # permissionId)
         ELSE Append(prev, permissionId)

exceptRolesPage == <<tableVars, attendance, reportsPage, departmentsPage>>

\* useState initial values (lines 32-35); canEdit is user?.role === "admin"
RolesInit ==
    /\ TableNotMounted
    /\ rolesPage \in { [mounted |-> TRUE, canEdit |-> c, selectedUser |-> 0,
                        editingRole |-> "", editingPermissions |-> <<>>,
                        isPending |-> FALSE, request |-> NoRequest,
                        lastOp |-> "mount", sent |-> FALSE] : c \in BOOLEAN }
    /\ attendance = NotMounted
    /\ reportsPage = NotMounted
    /\ departmentsPage = NotMounted

\* handleEditUser (lines 96-100), the Edit / View button of a row
HandleEditUser(user) ==
    /\ rolesPage' = [rolesPage EXCEPT !.selectedUser = user.id,
                                      !.editingRole = user.role,
                                      !.editingPermissions = user.customPermissions,
                                      !.lastOp = "edit", !.sent = FALSE]
    /\ UNCHANGED exceptRolesPage

\* onValueChange of the role Select (lines 257-268)
SetEditingRole(role) ==
    /\ rolesPage.canEdit
    /\ rolesPage.selectedUser # 0
    /\ role # rolesPage.editingRole
    /\ rolesPage' = [rolesPage EXCEPT !.editingRole = role,
                                      !.lastOp = "role", !.sent = FALSE]
    /\ UNCHANGED exceptRolesPage

\* onCheckedChange of a permission Checkbox (lines 285-289)
TogglePermission(permissionId) ==
    /\ rolesPage.canEdit
    /\ rolesPage.selectedUser # 0
    /\ rolesPage' = [rolesPage EXCEPT
            !.editingPermissions = togglePermission(rolesPage.editingRole, @, permissionId),
            !.lastOp = "toggle", !.sent = FALSE]
    /\ UNCHANGED exceptRolesPage

\* the Cancel button (lines 306-308)
CancelEdit ==
    /\ rolesPage.canEdit
    /\ rolesPage.selectedUser # 0
    /\ rolesPage' = [rolesPage EXCEPT !.selectedUser = 0,
                                      !.lastOp = "cancel", !.sent = FALSE]
    /\ UNCHANGED exceptRolesPage

\* handleSavePermissions (lines 102-110); the Save button is disabled while
\* the mutation is pending (line 311)
HandleSavePermissions ==
    /\ rolesPage.canEdit
    /\ ~ rolesPage.isPending
    /\ rolesPage' =
         IF rolesPage.selectedUser = 0
         THEN [rolesPage EXCEPT !.lastOp = "save", !.sent = FALSE]
         ELSE [rolesPage EXCEPT
                 !.isPending = TRUE,
                 !.request = [userId |-> rolesPage.selectedUser,
                              role |-> rolesPage.editingRole,
                              customPermissions |-> rolesPage.editingPermissions],
                 !.lastOp = "save", !.sent = TRUE]
    /\ UNCHANGED exceptRolesPage

\* onSuccess of updatePermissionsMutation (lines 74-80)
UpdatePermissionsSuccess ==
    /\ rolesPage.isPending
    /\ rolesPage' = [rolesPage EXCEPT !.isPending = FALSE, !.request = NoRequest,
                                      !.selectedUser = 0,
                                      !.lastOp = "success", !.sent = FALSE]
    /\ UNCHANGED exceptRolesPage

\* faulty variant: the failed edit is closed like a successful one
UpdatePermissionsErrorCloses ==
    /\ rolesPage.isPending
    /\ rolesPage' = [rolesPage EXCEPT !.isPending = FALSE, !.request = NoRequest,
                                      !.selectedUser = 0,
                                      !.lastOp = "error", !.sent = FALSE]
    /\ UNCHANGED exceptRolesPage

\* onError of updatePermissionsMutation (lines 81-87): a toast only
UpdatePermissionsError ==
    /\ rolesPage.isPending
    /\ rolesPage' = [rolesPage EXCEPT !.isPending = FALSE, !.request = NoRequest,
                                      !.lastOp = "error", !.sent = FALSE]
    /\ UNCHANGED exceptRolesPage

RolesNext ==
    \/ \E user \in RoleUsers : HandleEditUser(user)
    \/ \E role \in Roles : SetEditingRole(role)
    \/ \E permissionId \in Permissions : TogglePermission(permissionId)
    \/ CancelEdit
    \/ HandleSavePermissions
    \/ UpdatePermissionsSuccess
    \/ UpdatePermissionsError

RolesSpec == RolesInit /\ [][RolesNext]_vars

\* C25: togglePermission(p) leaves editingPermissions as it is when p is a
\* default permission of the editing role; otherwise p is added if absent and
\* removed if present, every other entry stays in place, and a second toggle of
\* p gives back the previous set.
C25_ToggleFlipsOnlyNonDefault ==
    [][ \A p \in Permissions :
          (rolesPage'.lastOp = "toggle" /\ TogglePermission(p)) =>
             LET role == rolesPage.editingRole
                 prev == rolesPage.editingPermissions
                 next == rolesPage'.editingPermissions
             IN /\ rolesPage'.editingRole = role
                /\ rolesPage'.selectedUser = rolesPage.selectedUser
                /\ (p \in DEFAULT_ROLE_PERMISSIONS(role)) => next = prev
                /\ (p \notin DEFAULT_ROLE_PERMISSIONS(role)) =>
                      /\ (p \in Range(next)) <=> (p \notin Range(prev))
                      /\ SelectSeq(next, LAMBDA q : q # p) = SelectSeq(prev, LAMBDA q : q # p)
                      /\ Range(togglePermission(role, next, p)) = Range(prev) ]_vars

\* C25 witness: for a user edited as manager, whose role gives approve_leave
\* by default, a toggle has left manage_roles as the only custom permission.
C25_Witness ==
    /\ rolesPage.lastOp = "toggle"
    /\ rolesPage.editingRole = "manager"
    /\ rolesPage.editingPermissions = <<"manage_roles">>
    /\ rolesPage.selectedUser = 1

\* C26: the customPermissions that Save Changes submits hold no permission
\* that is a default permission of the submitted role.
C26_SubmittedHasNoDefault ==
    (rolesPage.lastOp = "save" /\ rolesPage.sent) =>
        \A j \in 1..Len(rolesPage.request.customPermissions) :
            rolesPage.request.customPermissions[j]
                \notin DEFAULT_ROLE_PERMISSIONS(rolesPage.request.role)

\* C27: handleSavePermissions sends nothing when no user is selected; a
\* successful update clears the selected user; a failed update leaves the
\* selected user, the editing role and the editing permissions as they were.
C27_SaveOutcomes ==
    [][ /\ (rolesPage'.lastOp = "save" /\ HandleSavePermissions
              /\ rolesPage.selectedUser = 0)
            => ( /\ ~ rolesPage'.sent
                 /\ rolesPage'.request = rolesPage.request
                 /\ rolesPage'.isPending = rolesPage.isPending )
        /\ (rolesPage'.lastOp = "save" /\ HandleSavePermissions
              /\ rolesPage.selectedUser # 0)
            => ( /\ rolesPage'.sent
                 /\ rolesPage'.request.userId = rolesPage.selectedUser )
        /\ (rolesPage'.lastOp = "success" /\ UpdatePermissionsSuccess)
            => rolesPage'.selectedUser = 0
        /\ (rolesPage'.lastOp = "error" /\ UpdatePermissionsError)
            => ( /\ rolesPage'.selectedUser = rolesPage.selectedUser
                 /\ rolesPage'.editingRole = rolesPage.editingRole
                 /\ rolesPage'.editingPermissions = rolesPage.editingPermissions ) ]_vars

\* C27 witness: an update failed and the user, a changed role and an added
\* permission are still in the editor.
C27_Witness ==
    /\ rolesPage.lastOp = "error"
    /\ rolesPage.selectedUser = 1
    /\ rolesPage.editingRole = "hr"
    /\ rolesPage.editingPermissions = <<"manage_roles">>
    /\ ~ rolesPage.isPending

\* ---------------------------------------------------------------------
\* AttendanceOverview (part_001 lines 265-400) and the Late Days column of
\* ReportsPage (reports-page.tsx lines 188-199)

\* Date.prototype.getHours() and getMinutes()
Hours == 0..23
Minutes == 0..59

\* checkInTime of a record that has not checked in
NoCheckIn == [hour |-> -1, minute |-> -1]

\* new Date(null) is the epoch; its local hour and minute depend on the time
\* zone of the browser
EpochLocalTimes ==
    { [hour |-> 0, minute |-> 0], [hour |-> 5, minute |-> 30],
      [hour |-> 9, minute |-> 30], [hour |-> 19, minute |-> 0] }

\* the records the /api/attendance query can return
AttendanceRecords ==
    { [status |-> st, checkInTime |-> t] :
        st \in {"present", "absent"},
        t \in {NoCheckIn} \cup { [hour |-> h, minute |-> mi] : h \in Hours, mi \in Minutes } }

\* new Date(record.checkInTime)
CheckInDate(record, epoch) ==
    IF record.checkInTime = NoCheckIn THEN epoch ELSE record.checkInTime

\* filter of the chart's late count (lines 291-295)
chartLate(record, epoch) ==
    /\ record.status = "present"
    /\ CheckInDate(record, epoch).hour >= 9
    /\ CheckInDate(record, epoch).minute > 0

\* filter of the report's Late Days column (reports-page.tsx lines 192-197)
lateDays(record, epoch) ==
    /\ record.status = "present"
    /\ record.checkInTime # NoCheckIn
    /\ CheckInDate(record, epoch).hour >= 9
    /\ CheckInDate(record, epoch).minute > 0

\* recordsWithCheckIn of calculatePunctualityRate (lines 343-345)
recordsWithCheckIn(record) ==
    record.status = "present" /\ record.checkInTime # NoCheckIn

\* punctualRecords of calculatePunctualityRate (lines 349-352)
punctualRecords(record) ==
    /\ recordsWithCheckIn(record)
    /\ \/ record.checkInTime.hour < 9
       \/ (record.checkInTime.hour = 9 /\ record.checkInTime.minute <= 0)

\* what one render of AttendanceOverview and of the report table shows
AttendanceRender(view, records, epoch, op) ==
    [mounted |-> TRUE, view |-> view, attendanceData |-> records, epoch |-> epoch,
     present |-> Len(SelectSeq(records, LAMBDA r : r.status = "present")),
     late |-> Len(SelectSeq(records, LAMBDA r : chartLate(r, epoch))),
     lateDays |-> Len(SelectSeq(records, LAMBDA r : lateDays(r, epoch))),
     withCheckIn |-> Len(SelectSeq(records, recordsWithCheckIn)),
     punctual |-> Len(SelectSeq(records, punctualRecords)),
     lastOp |-> op]

exceptAttendance == <<tableVars, rolesPage, reportsPage, departmentsPage>>

\* useState("weekly") and the query's default [] (lines 266, 275)
AttendanceInit ==
    /\ TableNotMounted
    /\ rolesPage = NotMounted
    /\ attendance \in { AttendanceRender("weekly", <<>>, e, "mount") : e \in EpochLocalTimes }
    /\ reportsPage = NotMounted
    /\ departmentsPage = NotMounted

\* the Weekly / Monthly buttons: setView changes the query key, and until the
\* query of the new key answers attendanceData is the default []
SetAttendanceView(view) ==
    /\ view # attendance.view
    /\ attendance' = AttendanceRender(view, <<>>, attendance.epoch, "view")
    /\ UNCHANGED exceptAttendance

\* the pending /api/attendance query delivers the records of the range
AttendanceDataArrives(records) ==
    /\ attendance.lastOp \in {"mount", "view"}
    /\ attendance' = AttendanceRender(attendance.view, records, attendance.epoch, "data")
    /\ UNCHANGED exceptAttendance

AttendanceNext ==
    \/ \E view \in {"weekly", "monthly"} : SetAttendanceView(view)
    \/ \E record \in AttendanceRecords : AttendanceDataArrives(<<record>>)
    \/ AttendanceDataArrives(<<>>)

AttendanceSpec == AttendanceInit /\ [][AttendanceNext]_vars

\* C28: every record with status 'present' and a check-in time is counted as
\* exactly one of late (the late counts of the chart and of the report) and
\* punctual (the punctuality rate), whatever its check-in hour and minute.
C28_LatePunctualPartition ==
    \A i \in 1..Len(attendance.attendanceData) :
        LET record == attendance.attendanceData[i] IN
        recordsWithCheckIn(record) =>
            /\ chartLate(record, attendance.epoch) # punctualRecords(record)
            /\ lateDays(record, attendance.epoch) # punctualRecords(record)

\* ---------------------------------------------------------------------
\* ReportsPage export (reports-page.tsx lines 46-80, 281-400, 440-520)

ReportTypes == {"attendance", "leave"}
ExportFormats == {"excel", "pdf"}
ReportViews == {"chart", "table"}
DepartmentChoices == {"all", "1"}
DateRanges == {"last30", "picked"}

\* the number of rows an /api/reports/... answer can have
ReportRowCounts == {0, 1, 2}

\* nothing has been written yet
NoExport == [format |-> "", title |-> "", rows |-> -1]

\* exportToExcel (lines 298-335) and exportToPDF (lines 339-401): the sheet or
\* document built from reportData and handed to XLSX.writeFile / doc.save
exportedFile(format, reportType, reportData) ==
    [format |-> format,
     title |-> IF reportType = "attendance" THEN "Attendance Report" ELSE "Leave Report",
     rows |-> reportData]

\* faulty variant: no finally block, isExporting is reset only after a
\* successful export
handleExportNoFinally(page, format, throws) ==
    IF throws
    THEN [page EXCEPT !.isExporting = TRUE, !.outcome = "caught",
                      !.propagated = FALSE, !.lastOp = "export"]
    ELSE [page EXCEPT !.isExporting = FALSE, !.outcome = "saved",
                      !.file = exportedFile(format, page.reportType, page.reportData),
                      !.propagated = FALSE, !.lastOp = "export"]

\* handleExport (lines 281-295): setIsExporting(true); try the export; catch
\* logs the error; finally setIsExporting(false). 'throws' says whether the
\* export function raised.
handleExport(page, format, throws) ==
    IF throws
    THEN [page EXCEPT !.isExporting = FALSE, !.outcome = "caught",
                      !.propagated = FALSE, !.lastOp = "export"]
    ELSE [page EXCEPT !.isExporting = FALSE, !.outcome = "saved",
                      !.file = exportedFile(format, page.reportType, page.reportData),
                      !.propagated = FALSE, !.lastOp = "export"]

exceptReportsPage == <<tableVars, rolesPage, attendance, departmentsPage>>

\* useState initial values (lines 47-58); reportData defaults to [] while the
\* query is loading
ReportsInit ==
    /\ TableNotMounted
    /\ rolesPage = NotMounted
    /\ attendance = NotMounted
    /\ reportsPage \in { [mounted |-> TRUE, reportType |-> t, view |-> "chart",
                          dateRange |-> "last30", selectedDepartment |-> "all",
                          isLoading |-> TRUE, reportData |-> 0,
                          isExporting |-> FALSE, outcome |-> "none",
                          file |-> NoExport, propagated |-> FALSE,
                          lastOp |-> "mount"] : t \in ReportTypes }
    /\ departmentsPage = NotMounted

\* the Chart / Table tabs (lines 511-520)
SetReportView(val) ==
    /\ val # reportsPage.view
    /\ reportsPage' = [reportsPage EXCEPT !.view = val, !.lastOp = "view"]
    /\ UNCHANGED exceptReportsPage

\* onSelect of the range Calendar (lines 450-454): a new query key
SetDateRange(range) ==
    /\ range # reportsPage.dateRange
    /\ reportsPage' = [reportsPage EXCEPT !.dateRange = range, !.isLoading = TRUE,
                                          !.reportData = 0, !.lastOp = "range"]
    /\ UNCHANGED exceptReportsPage

\* onValueChange of the department Select (lines 461-464): a new query key
SetSelectedDepartment(value) ==
    /\ value # reportsPage.selectedDepartment
    /\ reportsPage' = [reportsPage EXCEPT !.selectedDepartment = value,
                                          !.isLoading = TRUE, !.reportData = 0,
                                          !.lastOp = "department"]
    /\ UNCHANGED exceptReportsPage

\* the report query answers (lines 71-80)
ReportDataArrives(rows) ==
    /\ reportsPage.isLoading
    /\ reportsPage' = [reportsPage EXCEPT !.isLoading = FALSE, !.reportData = rows,
                                          !.lastOp = "data"]
    /\ UNCHANGED exceptReportsPage

\* the Export Excel / Export PDF buttons (lines 483-506), disabled while
\* isExporting or reportData is empty; onClick runs handleExport to its end
HandleExport(format) ==
    /\ ~ reportsPage.isExporting
    /\ reportsPage.reportData # 0
    /\ \E throws \in BOOLEAN :
          reportsPage' = handleExport(reportsPage, format, throws)
    /\ UNCHANGED exceptReportsPage

ReportsNext ==
    \/ \E val \in ReportViews : SetReportView(val)
    \/ \E range \in DateRanges : SetDateRange(range)
    \/ \E value \in DepartmentChoices : SetSelectedDepartment(value)
    \/ \E rows \in ReportRowCounts : ReportDataArrives(rows)
    \/ \E format \in ExportFormats : HandleExport(format)

ExportSpec == ReportsInit /\ [][ReportsNext]_vars

\* C29: when handleExport has returned, isExporting is false whether the
\* export succeeded or threw, a failure was caught and did not propagate, and
\* the export started with non-empty report data and no export in progress.
C29_ExportAlwaysResets ==
    [][ \A format \in ExportFormats :
          (reportsPage'.lastOp = "export" /\ HandleExport(format)) =>
              /\ ~ reportsPage'.isExporting
              /\ ~ reportsPage'.propagated
              /\ reportsPage'.outcome \in {"saved", "caught"}
              /\ reportsPage.reportData # 0
              /\ ~ reportsPage.isExporting ]_vars

\* C29 witness: an export of two rows threw, the page is back to idle and the
\* file of the export before it is the last one written.
C29_Witness ==
    /\ reportsPage.lastOp = "export"
    /\ reportsPage.outcome = "caught"
    /\ reportsPage.reportData = 2
    /\ reportsPage.file # NoExport
    /\ ~ reportsPage.isExporting

\* ---------------------------------------------------------------------
\* DepartmentsPage dialogs (part_000 lines 26-68, 172-244) and DepartmentForm
\* (department-form.tsx lines 26-135)

\* the two dialogs that hold a DepartmentForm
Dialogs == {"add", "edit"}

\* ids of the departments listed; 0 stands for selectedDepartment === null
DepartmentIds == {1, 2}

\* create/update requests of one dialog that may be unanswered at a time
MaxInFlight == 2

IsOpen(page, dialog) ==
    IF dialog = "add" THEN page.isAddOpen ELSE page.isEditOpen

\* setIsAddOpen / setIsEditOpen; a DepartmentForm lives in DialogContent, so
\* a dialog that opens or closes gets a new form with an idle mutation
SetOpen(page, dialog, open) ==
    IF dialog = "add"
    THEN [page EXCEPT !.isAddOpen = open, !.isPending["add"] = FALSE]
    ELSE [page EXCEPT !.isEditOpen = open, !.isPending["edit"] = FALSE]

\* the onSuccess prop the page passes to the form (part_000 lines 184-187 and
\* 237-240): close the dialog and invalidate the departments query
onSuccess(page, dialog) ==
    [SetOpen(page, dialog, FALSE) EXCEPT !.stale = TRUE]

\* faulty variant: onError calls the onSuccess prop as well
mutationOnErrorCloses(page, dialog, current) ==
    [onSuccess(page, dialog) EXCEPT !.toast = "Error"]

\* mutation.onError (department-form.tsx lines 66-72): a destructive toast;
\* 'current' says whether the request came from the form now shown, whose
\* mutation then stops being pending
mutationOnError(page, dialog, current) ==
    [page EXCEPT !.toast = "Error",
                 !.isPending[dialog] = IF current THEN FALSE ELSE @]

\* mutation.onSuccess (department-form.tsx lines 57-65): a toast, then the
\* onSuccess prop
mutationOnSuccess(page, dialog) ==
    [onSuccess(page, dialog) EXCEPT
        !.toast = IF dialog = "edit" THEN "Department updated" ELSE "Department created"]

exceptDepartmentsPage == <<tableVars, rolesPage, attendance, reportsPage>>

\* useState initial values (part_000 lines 28-31)
DepartmentsInit ==
    /\ TableNotMounted
    /\ rolesPage = NotMounted
    /\ attendance = NotMounted
    /\ reportsPage = NotMounted
    /\ departmentsPage = [mounted |-> TRUE, isAddOpen |-> FALSE, isEditOpen |-> FALSE,
                          selectedDepartment |-> 0,
                          isPending |-> [d \in Dialogs |-> FALSE],
                          inFlight |-> [d \in Dialogs |-> 0],
                          stale |-> FALSE, toast |-> "", lastOp |-> "mount"]

NoDialogOpen == ~ departmentsPage.isAddOpen /\ ~ departmentsPage.isEditOpen

\* the Add Department trigger (part_000 lines 172-178)
OpenAddDialog ==
    /\ NoDialogOpen
    /\ departmentsPage' = [SetOpen(departmentsPage, "add", TRUE) EXCEPT !.lastOp = "open"]
    /\ UNCHANGED exceptDepartmentsPage

\* handleEdit (part_000 lines 65-68)
HandleEdit(department) ==
    /\ NoDialogOpen
    /\ departmentsPage' = [SetOpen(departmentsPage, "edit", TRUE) EXCEPT
                              !.selectedDepartment = department, !.lastOp = "open"]
    /\ UNCHANGED exceptDepartmentsPage

\* onOpenChange(false) of a dialog: Escape, the overlay or the close button
DismissDialog(dialog) ==
    /\ IsOpen(departmentsPage, dialog)
    /\ departmentsPage' = [SetOpen(departmentsPage, dialog, FALSE) EXCEPT !.lastOp = "dismiss"]
    /\ UNCHANGED exceptDepartmentsPage

\* the Cancel button of the form (department-form.tsx lines 117-123), whose
\* onClick is the onSuccess prop
CancelForm(dialog) ==
    /\ IsOpen(departmentsPage, dialog)
    /\ departmentsPage' = [onSuccess(departmentsPage, dialog) EXCEPT !.lastOp = "cancel"]
    /\ UNCHANGED exceptDepartmentsPage

\* the submit button (lines 124-131) through form.handleSubmit(onSubmit)
\* (lines 76-78, 82): values that pass the schema are sent with mutation.mutate
SubmitForm(dialog, valid) ==
    /\ IsOpen(departmentsPage, dialog)
    /\ ~ departmentsPage.isPending[dialog]
    /\ departmentsPage.inFlight[dialog] < MaxInFlight
    /\ departmentsPage' =
          IF valid
          THEN [departmentsPage EXCEPT !.isPending[dialog] = TRUE,
                                       !.inFlight[dialog] = @ + 1,
                                       !.lastOp = "submit"]
          ELSE [departmentsPage EXCEPT !.lastOp = "invalid"]
    /\ UNCHANGED exceptDepartmentsPage

\* a create/update request of the dialog is answered with success
SaveSucceeds(dialog) ==
    /\ departmentsPage.inFlight[dialog] > 0
    /\ departmentsPage' = [mutationOnSuccess(departmentsPage, dialog) EXCEPT
                              !.inFlight[dialog] = @ - 1, !.lastOp = "saved"]
    /\ UNCHANGED exceptDepartmentsPage

\* a create/update request of the dialog is answered with an error; it is the
\* request of the form now shown, or one sent by a form that was closed since
SaveFails(dialog) ==
    /\ departmentsPage.inFlight[dialog] > 0
    /\ \E current \in BOOLEAN :
          /\ current => departmentsPage.isPending[dialog]
          /\ ~ current => departmentsPage.inFlight[dialog] >
                              (IF departmentsPage.isPending[dialog] THEN 1 ELSE 0)
          /\ departmentsPage' = [mutationOnError(departmentsPage, dialog, current) EXCEPT
                                    !.inFlight[dialog] = @ - 1, !.lastOp = "failed"]
    /\ UNCHANGED exceptDepartmentsPage

\* the invalidated /api/departments query has refetched (part_000 lines 34-36)
DepartmentsRefetched ==
    /\ departmentsPage.stale
    /\ departmentsPage' = [departmentsPage EXCEPT !.stale = FALSE, !.lastOp = "refetch"]
    /\ UNCHANGED exceptDepartmentsPage

DepartmentsNext ==
    \/ OpenAddDialog
    \/ \E department \in DepartmentIds : HandleEdit(department)
    \/ \E dialog \in Dialogs : DismissDialog(dialog)
    \/ \E dialog \in Dialogs : CancelForm(dialog)
    \/ \E dialog \in Dialogs, valid \in BOOLEAN : SubmitForm(dialog, valid)
    \/ \E dialog \in Dialogs : SaveSucceeds(dialog)
    \/ \E dialog \in Dialogs : SaveFails(dialog)
    \/ DepartmentsRefetched

FormSpec == DepartmentsInit /\ [][DepartmentsNext]_vars

\* C30: a successful create/update invokes the onSuccess prop (the dialog is
\* closed and the departments query invalidated); a failed one does not: the
\* dialog stays as it was and the departments query is not invalidated.
C30_OnSuccessOnlyOnSuccess ==
    [][ \A dialog \in Dialogs :
          /\ (departmentsPage'.lastOp = "saved" /\ SaveSucceeds(dialog)) =>
                /\ ~ IsOpen(departmentsPage', dialog)
                /\ departmentsPage'.stale
          /\ (departmentsPage'.lastOp = "failed" /\ SaveFails(dialog)) =>
                /\ departmentsPage'.isAddOpen = departmentsPage.isAddOpen
                /\ departmentsPage'.isEditOpen = departmentsPage.isEditOpen
                /\ departmentsPage'.stale = departmentsPage.stale
                /\ departmentsPage'.toast = "Error" ]_vars

\* C30 witness: the save of the edit dialog failed; the dialog is still open
\* with its form ready for another submit and the departments query is fresh.
C30_Witness ==
    /\ departmentsPage.lastOp = "failed"
    /\ departmentsPage.isEditOpen
    /\ departmentsPage.selectedDepartment = 2
    /\ ~ departmentsPage.isPending["edit"]
    /\ departmentsPage.inFlight["edit"] = 0
    /\ ~ departmentsPage.stale

====
